---- MODULE Spec2Model ----
(***************************************************************************)
(* Photon emitting simulation (src/main.py): the frame loop, the object    *)
(* registry, the photon source and its photons.                            *)
(*                                                                         *)
(* Discretisation.  Coordinates are whole pixels and headings are whole    *)
(* degrees on the 90-degree grid, where cos and sin are exact.  A heading  *)
(* produced by atan2 or by the random axis is rounded onto that grid.      *)
(* random.random() and random.uniform() are nondeterministic choices from  *)
(* sample points of their ranges.                                          *)
(*                                                                         *)
(* Specifications.  Spec: the frame loop under key and toggle events.      *)
(* SpecUI: the frame loop under pointer and wheel events.  SpecSet: the    *)
(* frame loop with accept_all of the settings thread interleaved.          *)
(* SpecTwo: the frame loop with two PhotonSource objects in the registry.  *)
(***************************************************************************)
EXTENDS Integers, Sequences, FiniteSets, TLC

\* ------------------------------------------------------------------ bounds
\* canvas size reported by the display (main.py:283)
d_w == 16
d_h == 16
\* number of frames explored
MaxTicks == 4
\* number of non-zero results random.uniform(-axis_value, axis_value) yields
MaxJitterDraws == 1
\* number of times Set is pressed in the settings window
MaxAccepts == 1

\* --------------------------------------------------------- program constants
NColors == 8
MinRadius == 5
WheelStep == 5
SourceRadius == 5
FullCircle == 360

\* ------------------------------------------------------------------- state
VARIABLES
    axis_value,       \* global axis_value, in hundredths
    ate_probability,  \* Circle.ate_probability, in hundredths
    frequency,        \* PhotonSource.frequency
    rays_step,        \* PhotonSource.rays_step
    p_size,           \* Photon.p_size
    entries,          \* texts of the five tk.Entry widgets of VarsRegistry
    accepts,          \* number of accept_all() calls since startup
    typed,            \* the entry texts the last accept_all() call found
    objs,             \* id -> the fields of a live Figure object
    figures,          \* Figure.__objects__ (ids, in order)
    circles,          \* Circle.__objects__
    sources,          \* PhotonSource.__objects__
    photons,          \* PhotonSource.photons (one list, a class attribute)
    ticks,            \* source id -> its ticks
    enabled,          \* source id -> its enabled
    madeBy,           \* Photon identity -> id of the source that made it
    nextPhoton,       \* identity of the next Photon object
    running,          \* main loop flag
    pc,               \* position of the main loop
    event_list,       \* this frame's pygame.event.get()
    mouse,            \* pygame.mouse.get_pos() during this frame
    it,               \* list iterator of the running for loop (next index)
    sit,              \* list iterator of the loop of line 314 (current index)
    tick,             \* number of emit() calls since startup
    jitterLeft,       \* non-zero random axis results still to come
    spawned,          \* photons made by generate_photons in the last emit()
    moveStart,        \* ids in photons when the last move_photons started
    blits,            \* the Photon.blit calls of the last move_photons
    heard,            \* ids whose listen ran in the last dispatch phase
    seen              \* tunable -> the values read from it during this frame

vars == <<axis_value, ate_probability, frequency, rays_step, p_size, entries,
          accepts, typed, objs, figures, circles, sources, photons, ticks, enabled,
          madeBy, nextPhoton, running, pc, event_list, mouse, it, sit, tick,
          jitterLeft, spawned, moveStart, blits, heard, seen>>

config == <<axis_value, ate_probability, frequency, rays_step, p_size>>

\* the settings window
editor == <<entries, accepts, typed>>

\* ---------------------------------------------------------------- helpers
Abs(n) == IF n < 0 THEN -n ELSE n
Max(a, b) == IF a >= b THEN a ELSE b
Sq(n) == n * n

\* Python's a % b for b # 0: the result has the sign of b
PyMod(a, b) == IF b > 0 THEN a % b ELSE -((-a) % (-b))

\* s without its first element equal to x (list.remove)
Remove(s, x) ==
    LET idx == {k \in 1..Len(s) : s[k] = x}
        first == CHOOSE k \in idx : \A j \in idx : k <= j
    IN IF idx = {} THEN s
       ELSE [k \in 1..(Len(s) - 1) |-> IF k < first THEN s[k] ELSE s[k + 1]]

Ids(s) == {s[k].id : k \in 1..Len(s)}

\* -------------------------------------------------------------- geometry
\* Point.distance, squared (the code compares distances of whole numbers)
Dist2(a, b) == Sq(a[1] - b[1]) + Sq(a[2] - b[2])

\* math.cos / math.sin of a heading in degrees on the grid
Cos(a) ==
    CASE a % 360 = 0 -> 1
      [] a % 360 = 90 -> 0
      [] a % 360 = 180 -> -1
      [] a % 360 = 270 -> 0

Sin(a) ==
    CASE a % 360 = 0 -> 0
      [] a % 360 = 90 -> 1
      [] a % 360 = 180 -> 0
      [] a % 360 = 270 -> -1

\* a value of the random axis, in hundredths of a radian, as degrees on the grid
GridAngle(j) == ((j * 573 + 45000) \div 90000) * 90

\* math.atan2(y, x) rounded onto the grid, in (-180, 180]
Atan2Grid(y, x) ==
    IF Abs(x) >= Abs(y)
    THEN (IF x >= 0 THEN 0 ELSE 180)
    ELSE (IF y > 0 THEN 90 ELSE -90)

\* Vector2.reflect: v - 2 (v.n) n / |n|^2, scaled by |n|^2 > 0
Reflect(v, n) ==
    LET dot == v[1] * n[1] + v[2] * n[2]
        n2 == Sq(n[1]) + Sq(n[2])
    IN <<v[1] * n2 - 2 * dot * n[1], v[2] * n2 - 2 * dot * n[2]>>

\* ------------------------------------------------------------------ Circle
Collide(o, p) == Dist2(o.mid, p) <= Sq(o.radius)

InnerZone(o, p) == o.radius - 1 >= 0 /\ Dist2(o.mid, p) <= Sq(o.radius - 1)

\* Circle.compute_photon with random.random() = u (hundredths) and axis() = j
ComputePhoton_Draw(o, p, u, j) ==
    IF InnerZone(o, p.coord) \/ u <= ate_probability
    THEN [absorbed |-> TRUE, p |-> p]
    ELSE LET r_vec == <<p.coord[1] - o.mid[1], p.coord[2] - o.mid[2]>>
             p_vec == <<Cos(p.angle), Sin(p.angle)>>
             reflection == Reflect(p_vec, r_vec)
         IN [absorbed |-> FALSE,
             p |-> [p EXCEPT !.angle = Atan2Grid(reflection[2], reflection[1])
                                       + GridAngle(j)]]

ComputePhoton_And(o, p, u, j) ==
    IF InnerZone(o, p.coord) /\ u < ate_probability
    THEN [absorbed |-> TRUE, p |-> p]
    ELSE LET r_vec == <<p.coord[1] - o.mid[1], p.coord[2] - o.mid[2]>>
             p_vec == <<Cos(p.angle), Sin(p.angle)>>
             reflection == Reflect(p_vec, r_vec)
         IN [absorbed |-> FALSE,
             p |-> [p EXCEPT !.angle = Atan2Grid(reflection[2], reflection[1])
                                       + GridAngle(j)]]

ComputePhoton(o, p, u, j) ==
    IF InnerZone(o, p.coord) \/ u < ate_probability
    THEN [absorbed |-> TRUE, p |-> p]
    ELSE LET r_vec == <<p.coord[1] - o.mid[1], p.coord[2] - o.mid[2]>>
             p_vec == <<Cos(p.angle), Sin(p.angle)>>
             reflection == Reflect(p_vec, r_vec)
         IN [absorbed |-> FALSE,
             p |-> [p EXCEPT !.angle = Atan2Grid(reflection[2], reflection[1])
                                       + GridAngle(j)]]

\* ------------------------------------------------------------------ Photon
InBounds(c) == 0 <= c[1] /\ c[1] <= d_w /\ 0 <= c[2] /\ c[2] <= d_h

InBounds_XOnly(c) == 0 <= c[1] /\ c[1] <= d_w

\* sample points of random.random(), in hundredths
RandomDraws == {0, 50, 99}
\* sample points of axis() = random.uniform(-axis_value, axis_value) while
\* left non-zero results are still to come
AxisDraws(left) == IF left > 0 THEN {-axis_value, 0, axis_value} ELSE {0}

NonZero(js) == Cardinality({k \in DOMAIN js : js[k] # 0})

\* every result compute_photon can give for photon p at figure o, with the
\* count of non-zero axis results left after it (axis() is called on
\* reflection only)
ComputeOutcomes(o, p, left) ==
    { LET r == ComputePhoton(o, p, u, j)
      IN [r |-> r, left |-> IF r.absorbed THEN left ELSE left - NonZero(<<j>>)] :
      u \in RandomDraws, j \in AxisDraws(left) }

\* one record of a compute_photon call, kept in the blit record
CallRec(f, o, p, r) ==
    [fig |-> f, inner |-> InnerZone(o, p.coord), absorbed |-> r.absorbed]

BlitEnd(res, p, tests, calls, left) ==
    [res |-> res, p |-> p, tests |-> tests, calls |-> calls, left |-> left]

\* the for loop of Photon.blit from registry index k on: every way it can end
RECURSIVE BlitFigs_NoLimit(_, _, _, _, _)
BlitFigs_NoLimit(p, k, left, tests, calls) ==
    IF k > Len(figures) THEN {BlitEnd("alive", p, tests, calls, left)}
    ELSE LET f == figures[k]
             o == objs[f]
         IN IF ~Collide(o, p.coord)
            THEN BlitFigs_NoLimit(p, k + 1, left, tests + 1, calls)
            ELSE UNION { LET calls2 == Append(calls, CallRec(f, o, p, c.r))
                             q == [c.r.p EXCEPT !.n_reflections = @ + 1]
                         IN IF c.r.absorbed
                            THEN {BlitEnd("destroyed", p, tests + 1, calls2, c.left)}
                            ELSE BlitFigs_NoLimit(q, k + 1, c.left, tests + 1, calls2) :
                         c \in ComputeOutcomes(o, p, left) }

RECURSIVE BlitFigs_FirstOnly(_, _, _, _, _)
BlitFigs_FirstOnly(p, k, left, tests, calls) ==
    IF k > Len(figures) THEN {BlitEnd("alive", p, tests, calls, left)}
    ELSE LET f == figures[k]
             o == objs[f]
         IN IF ~Collide(o, p.coord)
            THEN BlitFigs_FirstOnly(p, k + 1, left, tests + 1, calls)
            ELSE UNION { LET calls2 == Append(calls, CallRec(f, o, p, c.r))
                             q == [c.r.p EXCEPT !.n_reflections = @ + 1]
                         IN IF c.r.absorbed
                            THEN {BlitEnd("destroyed", p, tests + 1, calls2, c.left)}
                            ELSE IF q.n_reflections >= NColors
                            THEN {BlitEnd("destroyed", q, tests + 1, calls2, c.left)}
                            ELSE {BlitEnd("alive", q, tests + 1, calls2, c.left)} :
                         c \in ComputeOutcomes(o, p, left) }

RECURSIVE BlitFigs(_, _, _, _, _)
BlitFigs(p, k, left, tests, calls) ==
    IF k > Len(figures) THEN {BlitEnd("alive", p, tests, calls, left)}
    ELSE LET f == figures[k]
             o == objs[f]
         IN IF ~Collide(o, p.coord)
            THEN BlitFigs(p, k + 1, left, tests + 1, calls)
            ELSE UNION { LET calls2 == Append(calls, CallRec(f, o, p, c.r))
                             q == [c.r.p EXCEPT !.n_reflections = @ + 1]
                         IN IF c.r.absorbed
                            THEN {BlitEnd("destroyed", p, tests + 1, calls2, c.left)}
                            ELSE IF q.n_reflections >= NColors
                            THEN {BlitEnd("destroyed", q, tests + 1, calls2, c.left)}
                            ELSE BlitFigs(q, k + 1, c.left, tests + 1, calls2) :
                         c \in ComputeOutcomes(o, p, left) }

\* the new position of Photon.blit, axis() = jx and jy (hundredths), to the
\* nearest whole pixel
Advance(p, jx, jy) ==
    [p EXCEPT !.coord = <<p.coord[1] + Cos(p.angle) + (jx + 100) \div 200,
                          p.coord[2] + Sin(p.angle) + (jy + 100) \div 200>>]

\* Photon.blit: every way the call can end for photon p
Blit_XOnly(p, left) ==
    UNION { LET q == Advance(p, jx, jy)
                l2 == left - NonZero(<<jx, jy>>)
            IN IF l2 < 0 THEN {}
               ELSE IF ~InBounds_XOnly(q.coord)
               THEN {BlitEnd("destroyed", q, 0, <<>>, l2)}
               ELSE BlitFigs(q, 1, l2, 0, <<>>) :
            jx \in AxisDraws(left), jy \in AxisDraws(left) }

Blit(p, left) ==
    UNION { LET q == Advance(p, jx, jy)
                l2 == left - NonZero(<<jx, jy>>)
            IN IF l2 < 0 THEN {}
               ELSE IF ~InBounds(q.coord)
               THEN {BlitEnd("destroyed", q, 0, <<>>, l2)}
               ELSE BlitFigs(q, 1, l2, 0, <<>>) :
            jx \in AxisDraws(left), jy \in AxisDraws(left) }

\* ------------------------------------------------------------ PhotonSource
\* range(a, stop, step) for step # 0
RECURSIVE Range(_, _, _)
Range(a, stop, step) ==
    IF (step > 0 /\ a < stop) \/ (step < 0 /\ a > stop)
    THEN <<a>> \o Range(a + step, stop, step)
    ELSE <<>>

\* the Photon made for range angle deg with axis() = j; identity id
NewPhoton_Centered(o, deg, j, id) ==
    LET a == deg + GridAngle(j)
    IN [id |-> id,
        coord |-> <<o.mid[1] + (o.radius + 1) * Cos(a),
                    o.mid[2] + (o.radius + 1) * Sin(a)>>,
        angle |-> a,
        n_reflections |-> 0]

NewPhoton(o, deg, j, id) ==
    LET a == deg + GridAngle(j)
    IN [id |-> id,
        coord |-> <<o.mid[1] + (o.radius + 1) * Cos(a),
                    o.mid[2] + (o.radius + 1) * Sin(a) + 1>>,
        angle |-> a,
        n_reflections |-> 0]

\* the list generate_photons appends; js[k] is the k-th axis() result
GeneratePhotons_Floor(o, js, first) ==
    LET angles == Range(0, FullCircle - rays_step + 1, rays_step)
    IN [k \in 1..Len(angles) |-> NewPhoton(o, angles[k], js[k], first + k - 1)]

GeneratePhotons(o, js, first) ==
    LET angles == Range(0, FullCircle, rays_step)
    IN [k \in 1..Len(angles) |-> NewPhoton(o, angles[k], js[k], first + k - 1)]

\* ------------------------------------------------------------------ events
Ev(t, pos, button, y, key) ==
    [type |-> t, pos |-> pos, button |-> button, y |-> y, key |-> key]

NoPos == <<0, 0>>
MouseMotion(pos) == Ev("MOUSEMOTION", pos, 0, 0, "none")
MouseDown(pos, b) == Ev("MOUSEBUTTONDOWN", pos, b, 0, "none")
MouseUp(pos, b) == Ev("MOUSEBUTTONUP", pos, b, 0, "none")
MouseWheel(y) == Ev("MOUSEWHEEL", NoPos, 0, y, "none")
KeyDown(key) == Ev("KEYDOWN", NoPos, 0, 0, key)
Quit == Ev("QUIT", NoPos, 0, 0, "none")

\* ----------------------------------------------------------- Circle.listen
\* the for loop of Circle.listen from event k on; m is pygame.mouse.get_pos()
RECURSIVE CircleListen_WrongKey(_, _, _, _)
CircleListen_WrongKey(o, evs, k, m) ==
    IF k > Len(evs) THEN [o |-> o, removed |-> FALSE]
    ELSE LET e == evs[k]
             o1 == IF e.type = "MOUSEMOTION" /\ o.activated_movement
                   THEN [o EXCEPT !.mid = e.pos] ELSE o
             o2 == IF e.type = "MOUSEBUTTONDOWN" /\ Collide(o1, e.pos) /\ e.button = 1
                   THEN [o1 EXCEPT !.activated_movement = TRUE] ELSE o1
             o3 == IF e.type = "MOUSEBUTTONUP" /\ o2.activated_movement /\ e.button = 1
                   THEN [o2 EXCEPT !.activated_movement = FALSE] ELSE o2
             o4 == IF e.type = "MOUSEWHEEL" /\ Collide(o3, m)
                   THEN [o3 EXCEPT !.radius = Max(MinRadius, @ + WheelStep * e.y)]
                   ELSE o3
         IN IF e.type = "KEYDOWN" /\ Collide(o4, m)
            THEN [o |-> o4, removed |-> TRUE]
            ELSE CircleListen_WrongKey(o4, evs, k + 1, m)

RECURSIVE CircleListen_NoClamp(_, _, _, _)
CircleListen_NoClamp(o, evs, k, m) ==
    IF k > Len(evs) THEN [o |-> o, removed |-> FALSE]
    ELSE LET e == evs[k]
             o1 == IF e.type = "MOUSEMOTION" /\ o.activated_movement
                   THEN [o EXCEPT !.mid = e.pos] ELSE o
             o2 == IF e.type = "MOUSEBUTTONDOWN" /\ Collide(o1, e.pos) /\ e.button = 1
                   THEN [o1 EXCEPT !.activated_movement = TRUE] ELSE o1
             o3 == IF e.type = "MOUSEBUTTONUP" /\ o2.activated_movement /\ e.button = 1
                   THEN [o2 EXCEPT !.activated_movement = FALSE] ELSE o2
             o4 == IF e.type = "MOUSEWHEEL" /\ Collide(o3, m)
                   THEN [o3 EXCEPT !.radius = @ + WheelStep * e.y]
                   ELSE o3
         IN IF e.type = "KEYDOWN" /\ e.key = "K_r" /\ Collide(o4, m)
            THEN [o |-> o4, removed |-> TRUE]
            ELSE CircleListen_NoClamp(o4, evs, k + 1, m)

RECURSIVE CircleListen(_, _, _, _)
CircleListen(o, evs, k, m) ==
    IF k > Len(evs) THEN [o |-> o, removed |-> FALSE]
    ELSE LET e == evs[k]
             o1 == IF e.type = "MOUSEMOTION" /\ o.activated_movement
                   THEN [o EXCEPT !.mid = e.pos] ELSE o
             o2 == IF e.type = "MOUSEBUTTONDOWN" /\ Collide(o1, e.pos) /\ e.button = 1
                   THEN [o1 EXCEPT !.activated_movement = TRUE] ELSE o1
             o3 == IF e.type = "MOUSEBUTTONUP" /\ o2.activated_movement /\ e.button = 1
                   THEN [o2 EXCEPT !.activated_movement = FALSE] ELSE o2
             o4 == IF e.type = "MOUSEWHEEL" /\ Collide(o3, m)
                   THEN [o3 EXCEPT !.radius = Max(MinRadius, @ + WheelStep * e.y)]
                   ELSE o3
         IN IF e.type = "KEYDOWN" /\ e.key = "K_r" /\ Collide(o4, m)
            THEN [o |-> o4, removed |-> TRUE]
            ELSE CircleListen(o4, evs, k + 1, m)

\* ----------------------------------------------------- PhotonSource.listen
\* the for loop of PhotonSource.listen from event k on: the source's enabled,
\* its photons, and whether the loop ended without the return of line 187
RECURSIVE SourceListen_NoReturn(_, _, _, _, _)
SourceListen_NoReturn(o, en, ph, evs, k) ==
    IF k > Len(evs) THEN [enabled |-> en, photons |-> ph, super |-> TRUE]
    ELSE LET e == evs[k]
             en1 == IF e.type = "MOUSEBUTTONDOWN" /\ e.button = 3 /\ Collide(o, e.pos)
                    THEN ~en ELSE en
             ph1 == IF e.type = "KEYDOWN" /\ e.key = "K_c" THEN <<>> ELSE ph
         IN SourceListen_NoReturn(o, en1, ph1, evs, k + 1)

RECURSIVE SourceListen_ToggleAnywhere(_, _, _, _, _)
SourceListen_ToggleAnywhere(o, en, ph, evs, k) ==
    IF k > Len(evs) THEN [enabled |-> en, photons |-> ph, super |-> TRUE]
    ELSE LET e == evs[k]
             en1 == IF e.type = "MOUSEBUTTONDOWN" /\ e.button = 3
                    THEN ~en ELSE en
             ph1 == IF e.type = "KEYDOWN" /\ e.key = "K_c" THEN <<>> ELSE ph
         IN IF e.type = "KEYDOWN" /\ e.key = "K_r"
            THEN [enabled |-> en1, photons |-> ph1, super |-> FALSE]
            ELSE SourceListen_ToggleAnywhere(o, en1, ph1, evs, k + 1)

RECURSIVE SourceListen(_, _, _, _, _)
SourceListen(o, en, ph, evs, k) ==
    IF k > Len(evs) THEN [enabled |-> en, photons |-> ph, super |-> TRUE]
    ELSE LET e == evs[k]
             en1 == IF e.type = "MOUSEBUTTONDOWN" /\ e.button = 3 /\ Collide(o, e.pos)
                    THEN ~en ELSE en
             ph1 == IF e.type = "KEYDOWN" /\ e.key = "K_c" THEN <<>> ELSE ph
         IN IF e.type = "KEYDOWN" /\ e.key = "K_r"
            THEN [enabled |-> en1, photons |-> ph1, super |-> FALSE]
            ELSE SourceListen(o, en1, ph1, evs, k + 1)

\* ------------------------------------------------------------ VarsRegistry
\* An entry text is a sequence of characters.
Digits == <<"0", "1", "2", "3", "4", "5", "6", "7", "8", "9">>

IsDigit(c) == \E d \in 1..10 : Digits[d] = c

DigitVal(c) == (CHOOSE d \in 1..10 : Digits[d] = c) - 1

AllDigits(t) == \A k \in 1..Len(t) : IsDigit(t[k])

\* the number a run of digits writes
RECURSIVE Number(_)
Number(t) ==
    IF t = <<>> THEN 0
    ELSE Number(SubSeq(t, 1, Len(t) - 1)) * 10 + DigitVal(t[Len(t)])

\* str.strip()
RECURSIVE LStrip(_)
LStrip(t) == IF t # <<>> /\ Head(t) = " " THEN LStrip(Tail(t)) ELSE t

RECURSIVE RStrip(_)
RStrip(t) ==
    IF t # <<>> /\ t[Len(t)] = " " THEN RStrip(SubSeq(t, 1, Len(t) - 1)) ELSE t

Strip(t) == RStrip(LStrip(t))

\* str.replace(",", ".")
ReplaceComma(t) == [k \in 1..Len(t) |-> IF t[k] = "," THEN "." ELSE t[k]]

\* a numeral without its sign, and the sign
Unsigned(t) == IF t # <<>> /\ Head(t) \in {"+", "-"} THEN Tail(t) ELSE t

Sign(t) == IF t # <<>> /\ Head(t) = "-" THEN -1 ELSE 1

\* int(t): ok is FALSE where int raises ValueError
ParseInt(t) ==
    LET s == Strip(t)
        b == Unsigned(s)
    IN IF b # <<>> /\ AllDigits(b)
       THEN [ok |-> TRUE, val |-> Sign(s) * Number(b)]
       ELSE [ok |-> FALSE, val |-> 0]

\* float(t) of a decimal numeral with at most two decimals, in hundredths: ok
\* is FALSE where float raises ValueError
ParseFloat(t) ==
    LET s == Strip(t)
        b == Unsigned(s)
        dots == {k \in 1..Len(b) : b[k] = "."}
        d == CHOOSE k \in dots : TRUE
        ip == IF dots = {} THEN b ELSE SubSeq(b, 1, d - 1)
        fp == IF dots = {} THEN <<>> ELSE SubSeq(b, d + 1, Len(b))
        frac == IF Len(fp) = 0 THEN 0
                ELSE IF Len(fp) = 1 THEN Number(fp) * 10
                ELSE Number(SubSeq(fp, 1, 2))
    IN IF /\ Cardinality(dots) <= 1
          /\ AllDigits(ip) /\ AllDigits(fp)
          /\ Len(ip) + Len(fp) > 0
       THEN [ok |-> TRUE, val |-> Sign(s) * (Number(ip) * 100 + frac)]
       ELSE [ok |-> FALSE, val |-> 0]

RECURSIVE DigitsOf(_)
DigitsOf(n) ==
    IF n < 10 THEN <<Digits[n + 1]>>
    ELSE Append(DigitsOf(n \div 10), Digits[(n % 10) + 1])

\* str(n) of an int
StrInt(n) == IF n < 0 THEN <<"-">> \o DigitsOf(-n) ELSE DigitsOf(n)

\* str(x) of the float of h hundredths
StrFloat(h) ==
    LET a == Abs(h)
        f == a % 100
        fd == IF f % 10 = 0 THEN <<Digits[f \div 10 + 1]>>
              ELSE <<Digits[f \div 10 + 1], Digits[(f % 10) + 1]>>
    IN (IF h < 0 THEN <<"-">> ELSE <<>>) \o DigitsOf(a \div 100) \o <<".">> \o fd

\* the texts the entries show for the values cur (lines 207-225)
Shown(cur) ==
    <<StrFloat(cur[1]), StrFloat(cur[2]), StrInt(cur[3]), StrInt(cur[4]),
      StrInt(cur[5])>>

\* one try block of accept_all: the value stored and the text left in the entry
TryFloat(old, text) ==
    LET r == ParseFloat(ReplaceComma(Strip(text)))
    IN IF r.ok THEN [val |-> r.val, text |-> text]
       ELSE [val |-> old, text |-> StrFloat(old)]

TryInt(old, text) ==
    LET r == ParseInt(Strip(text))
    IN IF r.ok THEN [val |-> r.val, text |-> text]
       ELSE [val |-> old, text |-> StrInt(old)]

\* accept_all with the values cur stored and texts in the entries: the values
\* stored and the texts shown afterwards
AcceptValues_OneTry(cur, texts) ==
    LET t == <<TryFloat(cur[1], texts[1]), TryFloat(cur[2], texts[2]),
               TryInt(cur[3], texts[3]), TryInt(cur[4], texts[4]),
               TryInt(cur[5], texts[5])>>
        bad == {k \in 1..5 : t[k].text # texts[k]}
        stop == IF bad = {} THEN 6 ELSE CHOOSE k \in bad : \A j \in bad : k <= j
    IN [val |-> [k \in 1..5 |-> IF k < stop THEN t[k].val ELSE cur[k]],
        text |-> [k \in 1..5 |-> IF k <= stop THEN t[k].text ELSE texts[k]]]

AcceptValues_Reset(cur, texts) ==
    LET t == <<TryFloat(0, texts[1]), TryFloat(0, texts[2]),
               TryInt(0, texts[3]), TryInt(0, texts[4]),
               TryInt(0, texts[5])>>
    IN [val |-> [k \in 1..5 |-> t[k].val], text |-> [k \in 1..5 |-> t[k].text]]

AcceptValues(cur, texts) ==
    LET t == <<TryFloat(cur[1], texts[1]), TryFloat(cur[2], texts[2]),
               TryInt(cur[3], texts[3]), TryInt(cur[4], texts[4]),
               TryInt(cur[5], texts[5])>>
    IN [val |-> [k \in 1..5 |-> t[k].val], text |-> [k \in 1..5 |-> t[k].text]]

\* --------------------------------------------------------------- start-up
SourceHome == <<d_w \div 2, d_h \div 2>>

Obj(kind, mid, radius) ==
    [kind |-> kind, mid |-> mid, radius |-> radius, activated_movement |-> FALSE]

\* outcomes of the four gen_circle() calls of line 288
LayoutA ==
    << Obj("circle", <<6, 5>>, 10), Obj("circle", <<5, 4>>, 11),
       Obj("circle", <<4, 5>>, 12), Obj("circle", <<4, 13>>, 11) >>

LayoutB ==
    << Obj("circle", <<3, 0>>, 10), Obj("circle", <<6, 0>>, 10),
       Obj("circle", <<4, 0>>, 11), Obj("circle", <<8, 3>>, 10) >>

\* the runs explored: the settings in force (values VarsRegistry.accept_all
\* takes: axis_value and ate_probability in hundredths, frequency, rays_step)
\* and the circles generated
Scenarios ==
    { <<0, 0, 1, 90, LayoutA>>, <<0, 0, 2, 270, LayoutB>>,
      <<0, 30, 1, 270, LayoutB>>, <<0, 100, 2, 90, LayoutA>>,
      <<200, 0, 2, 270, LayoutA>>, <<200, 30, 2, 270, LayoutB>> }

\* positions the pointer takes: over the source, over circles only, over nothing
MousePoints == {SourceHome, <<0, 0>>, <<d_w, d_h>>}

\* the values the tunables hold, in the order of the entries
Stored == <<axis_value, ate_probability, frequency, rays_step, p_size>>

Tunables == {"axis_value", "ate_probability", "frequency", "rays_step", "p_size"}

NoReads == [n \in Tunables |-> {}]

\* the state once line 300 has run, for the settings and circles sc
Start(sc) ==
    /\ axis_value = sc[1]
    /\ ate_probability = sc[2]
    /\ frequency = sc[3]
    /\ rays_step = sc[4]
    /\ p_size = 1
    /\ entries = Shown(<<sc[1], sc[2], sc[3], sc[4], 1>>)
    /\ accepts = 0
    /\ typed = <<>>
    /\ objs = [i \in 1..5 |-> IF i = 1 THEN Obj("source", SourceHome, SourceRadius)
                              ELSE sc[5][i - 1]]
    /\ figures = <<1, 2, 3, 4, 5>>
    /\ circles = <<2, 3, 4, 5>>
    /\ sources = <<1>>
    /\ photons = <<>>
    /\ ticks = [i \in {1} |-> 0]
    /\ enabled = [i \in {1} |-> TRUE]
    /\ madeBy = [i \in {} |-> 0]
    /\ nextPhoton = 1
    /\ running = TRUE
    /\ pc = "pump"
    /\ event_list = <<>>
    /\ mouse = SourceHome
    /\ it = 1
    /\ sit = 1
    /\ tick = 0
    /\ jitterLeft = MaxJitterDraws
    /\ spawned = <<>>
    /\ moveStart = <<>>
    /\ blits = <<>>
    /\ heard = <<>>
    /\ seen = NoReads

Init == \E sc \in Scenarios : Start(sc)

\* -------------------------------------------------------------- main loop
IsQuit(e) == e.type = "QUIT" \/ (e.type = "KEYDOWN" /\ e.key = "K_ESCAPE")

\* lines 303-308: the frame's events are read and the quit flag is set
Pump(evs, m) ==
    /\ pc = "pump"
    /\ tick < MaxTicks
    /\ event_list' = evs
    /\ mouse' = m
    /\ running' = IF \E k \in 1..Len(evs) : IsQuit(evs[k]) THEN FALSE ELSE running
    /\ pc' = "dispatch"
    /\ it' = 1
    /\ heard' = <<>>
    /\ seen' = NoReads
    /\ UNCHANGED <<config, editor, objs, figures, circles, sources, photons,
                   ticks, enabled, madeBy, nextPhoton, sit, tick, jitterLeft,
                   spawned, moveStart, blits>>

\* the registries after object id removed itself (lines 108-109)
DropFrom(reg, kind, id, o) == IF o.kind = kind THEN Remove(reg, id) ELSE reg

\* lines 309-310, one iteration: the next registry member hears the events
Dispatch ==
    /\ pc = "dispatch"
    /\ it <= Len(figures)
    /\ LET id == figures[it]
           o == objs[id]
           src == IF o.kind = "source"
                  THEN SourceListen(o, enabled[id], photons, event_list, 1)
                  ELSE [enabled |-> FALSE, photons |-> photons, super |-> TRUE]
           cl == IF src.super
                 THEN CircleListen(o, event_list, 1, mouse)
                 ELSE [o |-> o, removed |-> FALSE]
       IN /\ enabled' = IF o.kind = "source"
                        THEN [enabled EXCEPT ![id] = src.enabled] ELSE enabled
          /\ photons' = src.photons
          /\ IF cl.removed
             THEN /\ objs' = [i \in DOMAIN objs \ {id} |-> objs[i]]
                  /\ figures' = Remove(figures, id)
                  /\ circles' = DropFrom(circles, "circle", id, o)
                  /\ sources' = DropFrom(sources, "source", id, o)
             ELSE /\ objs' = [objs EXCEPT ![id] = cl.o]
                  /\ UNCHANGED <<figures, circles, sources>>
          /\ heard' = Append(heard, id)
    /\ it' = it + 1
    /\ UNCHANGED <<config, editor, ticks, madeBy, nextPhoton, running, pc,
                   event_list, mouse, sit, tick, jitterLeft, spawned, moveStart,
                   blits, seen>>

\* lines 311-314: the dispatch loop is over, the figures are drawn and the
\* loop over the sources starts
Render ==
    /\ pc = "dispatch"
    /\ it > Len(figures)
    /\ pc' = "emit"
    /\ sit' = 1
    /\ UNCHANGED <<config, editor, objs, figures, circles, sources, photons,
                   ticks, enabled, madeBy, nextPhoton, running, event_list,
                   mouse, it, tick, jitterLeft, spawned, moveStart, blits,
                   heard, seen>>

\* the value read from tunable n
Value(n) ==
    CASE n = "axis_value" -> axis_value
      [] n = "ate_probability" -> ate_probability
      [] n = "frequency" -> frequency
      [] n = "rays_step" -> rays_step
      [] n = "p_size" -> p_size

\* the reads rd after the tunables in names were read once more
Read(rd, names) ==
    [n \in Tunables |-> IF n \in names THEN rd[n] \cup {Value(n)} ELSE rd[n]]

\* line 174 for source s: the incremented counter is a multiple of frequency
Due(s) == PyMod(ticks[s] + 1, frequency) = 0

\* emit() of source s raises: ZeroDivisionError at line 174, or ValueError of
\* range() at line 165
Raises(s) ==
    IF frequency = 0 THEN TRUE ELSE Due(s) /\ enabled[s] /\ rays_step = 0

\* PhotonSource.emit up to the call of move_photons (lines 173-177)
EmitSpawn_Always(js) ==
    LET s == sources[sit]
        t == ticks[s] + 1
        due == TRUE
        new == IF due /\ enabled[s]
               THEN GeneratePhotons(objs[s], js, nextPhoton) ELSE <<>>
    IN /\ ticks' = [ticks EXCEPT ![s] = IF due THEN 0 ELSE t]
       /\ photons' = photons \o new
       /\ spawned' = new
       /\ madeBy' = [i \in DOMAIN madeBy \cup Ids(new) |->
                        IF i \in DOMAIN madeBy THEN madeBy[i] ELSE s]
       /\ nextPhoton' = nextPhoton + Len(new)
       /\ jitterLeft' = jitterLeft - (IF Len(new) > 0 THEN NonZero(js) ELSE 0)

EmitSpawn_Disabled(js) ==
    LET s == sources[sit]
        t == ticks[s] + 1
        due == PyMod(t, frequency) = 0
        new == IF due
               THEN GeneratePhotons(objs[s], js, nextPhoton) ELSE <<>>
    IN /\ ticks' = [ticks EXCEPT ![s] = IF due THEN 0 ELSE t]
       /\ photons' = photons \o new
       /\ spawned' = new
       /\ madeBy' = [i \in DOMAIN madeBy \cup Ids(new) |->
                        IF i \in DOMAIN madeBy THEN madeBy[i] ELSE s]
       /\ nextPhoton' = nextPhoton + Len(new)
       /\ jitterLeft' = jitterLeft - (IF Len(new) > 0 THEN NonZero(js) ELSE 0)

EmitSpawn(js) ==
    LET s == sources[sit]
        t == ticks[s] + 1
        due == PyMod(t, frequency) = 0
        new == IF due /\ enabled[s]
               THEN GeneratePhotons(objs[s], js, nextPhoton) ELSE <<>>
    IN /\ ticks' = [ticks EXCEPT ![s] = IF due THEN 0 ELSE t]
       /\ photons' = photons \o new
       /\ spawned' = new
       /\ madeBy' = [i \in DOMAIN madeBy \cup Ids(new) |->
                        IF i \in DOMAIN madeBy THEN madeBy[i] ELSE s]
       /\ nextPhoton' = nextPhoton + Len(new)
       /\ jitterLeft' = jitterLeft - (IF Len(new) > 0 THEN NonZero(js) ELSE 0)

\* lines 314-315 and 172-177: emit() of the next source, move_photons about
\* to run
Emit ==
    /\ pc = "emit"
    /\ sit <= Len(sources)
    /\ ~Raises(sources[sit])
    /\ \E js \in [1..Len(Range(0, FullCircle, rays_step)) -> AxisDraws(jitterLeft)] :
          /\ NonZero(js) <= jitterLeft
          /\ EmitSpawn(js)
    /\ seen' = Read(seen, {"frequency"}
                          \cup (IF Due(sources[sit]) /\ enabled[sources[sit]]
                                THEN {"rays_step"} ELSE {})
                          \cup (IF Len(spawned') > 0 THEN {"axis_value"} ELSE {}))
    /\ moveStart' = [k \in 1..Len(photons') |-> photons'[k].id]
    /\ blits' = <<>>
    /\ it' = 1
    /\ tick' = tick + 1
    /\ pc' = "move"
    /\ UNCHANGED <<config, editor, objs, figures, circles, sources, enabled,
                   running, event_list, mouse, sit, heard>>

\* lines 173-174 and 165: emit() of the next source raises and the exception
\* ends the main thread
EmitRaises ==
    /\ pc = "emit"
    /\ sit <= Len(sources)
    /\ Raises(sources[sit])
    /\ ticks' = [ticks EXCEPT ![sources[sit]] = @ + 1]
    /\ seen' = Read(seen, {"frequency"}
                          \cup (IF frequency # 0 THEN {"rays_step"} ELSE {}))
    /\ tick' = tick + 1
    /\ pc' = "error"
    /\ UNCHANGED <<config, editor, objs, figures, circles, sources, photons,
                   enabled, madeBy, nextPhoton, running, event_list, mouse, it,
                   sit, jitterLeft, spawned, moveStart, blits, heard>>

\* the photons after photons.remove(p)
RemovePhoton(ph, id) ==
    LET idx == {k \in 1..Len(ph) : ph[k].id = id}
        first == CHOOSE k \in idx : \A j \in idx : k <= j
    IN [k \in 1..(Len(ph) - 1) |-> IF k < first THEN ph[k] ELSE ph[k + 1]]

BlitRec(p, r) ==
    [id |-> p.id, res |-> r.res, coord |-> r.p.coord, tests |-> r.tests,
     calls |-> r.calls, before |-> p.n_reflections, after |-> r.p.n_reflections]

\* the tunables one Photon.blit call with the end r read (lines 134-135, 114
\* and 148)
BlitReads(r) ==
    {"axis_value"}
    \cup (IF \E j \in 1..Len(r.calls) : ~r.calls[j].inner
          THEN {"ate_probability"} ELSE {})
    \cup (IF r.res = "alive" THEN {"p_size"} ELSE {})

\* lines 168-170, one iteration of move_photons
MovePhotons ==
    /\ pc = "move"
    /\ it <= Len(photons)
    /\ LET p == photons[it]
       IN \E r \in Blit(p, jitterLeft) :
             /\ jitterLeft' = r.left
             /\ photons' = IF r.res = "destroyed"
                           THEN RemovePhoton(photons, p.id)
                           ELSE [photons EXCEPT ![it] = r.p]
             /\ blits' = Append(blits, BlitRec(p, r))
             /\ seen' = Read(seen, BlitReads(r))
    /\ it' = it + 1
    /\ UNCHANGED <<config, editor, objs, figures, circles, sources, ticks,
                   enabled, madeBy, nextPhoton, running, pc, event_list, mouse,
                   sit, tick, spawned, moveStart, heard>>

\* line 314: move_photons of one source is over, the next source is up
NextSource ==
    /\ pc = "move"
    /\ it > Len(photons)
    /\ sit < Len(sources)
    /\ sit' = sit + 1
    /\ pc' = "emit"
    /\ UNCHANGED <<config, editor, objs, figures, circles, sources, photons,
                   ticks, enabled, madeBy, nextPhoton, running, event_list,
                   mouse, it, tick, jitterLeft, spawned, moveStart, blits,
                   heard, seen>>

\* lines 316-320: the last move_photons is over and the frame ends
EndFrame ==
    /\ pc = "move"
    /\ it > Len(photons)
    /\ sit >= Len(sources)
    /\ pc' = IF running THEN "pump" ELSE "exit"
    /\ event_list' = <<>>
    /\ mouse' = SourceHome
    /\ it' = 1
    /\ UNCHANGED <<config, editor, objs, figures, circles, sources, photons,
                   ticks, enabled, madeBy, nextPhoton, running, sit, tick,
                   jitterLeft, spawned, moveStart, blits, heard, seen>>

\* VarsRegistry.accept_all on the settings thread, the entries holding texts
AcceptAll(texts) ==
    /\ pc \notin {"exit"}
    /\ accepts < MaxAccepts
    /\ LET r == AcceptValues(Stored, texts)
       IN /\ axis_value' = r.val[1]
          /\ ate_probability' = r.val[2]
          /\ frequency' = r.val[3]
          /\ rays_step' = r.val[4]
          /\ p_size' = r.val[5]
          /\ entries' = r.text
    /\ typed' = texts
    /\ accepts' = accepts + 1
    /\ UNCHANGED <<objs, figures, circles, sources, photons, ticks, enabled,
                   madeBy, nextPhoton, running, pc, event_list, mouse, it, sit,
                   tick, jitterLeft, spawned, moveStart, blits, heard, seen>>

\* ----------------------------------------------------------- event feeds
\* <<event list, pygame.mouse.get_pos()>> of a frame
SimInputs ==
    { <<(<<>>), SourceHome>>,
      <<(<<KeyDown("K_c")>>), SourceHome>>,
      <<(<<KeyDown("K_ESCAPE")>>), SourceHome>>,
      <<(<<Quit>>), SourceHome>>,
      <<(<<KeyDown("K_r")>>), SourceHome>>,
      <<(<<KeyDown("K_r")>>), (<<0, 0>>)>>,
      <<(<<KeyDown("K_r"), KeyDown("K_c")>>), (<<d_w, d_h>>)>>,
      <<(<<KeyDown("K_c"), KeyDown("K_r")>>), (<<d_w, d_h>>)>>,
      <<(<<MouseDown(SourceHome, 3)>>), SourceHome>>,
      <<(<<MouseDown(<<0, 0>>, 3)>>), (<<0, 0>>)>> }

PumpSim == \E in \in SimInputs : Pump(in[1], in[2])

Next == PumpSim \/ Dispatch \/ Render \/ Emit \/ MovePhotons \/ EndFrame

Spec == Init /\ [][Next]_vars

\* ---------------------------------------------------- the settings window
SetScenarios == { <<0, 0, 3, 270, LayoutB>> }

InitSet == \E sc \in SetScenarios : Start(sc)

\* texts the five entries hold when Set is pressed
SetTexts ==
    { <<<<"a", "b", "c">>, <<>>, <<"1", ".", "5">>, <<"x">>, <<" ">>>>,
      <<<<"a">>, <<"0", ",", "5">>, <<" ", "2", " ">>, <<"9", "0">>, <<"3">>>>,
      <<<<"0", ".", "0">>, <<"0", ".", "0">>, <<"0">>, <<"2", "7", "0">>, <<"1">>>>,
      <<<<"0">>, <<"0">>, <<"1">>, <<"0">>, <<"1">>>>,
      <<<<"0">>, <<"0">>, <<"2">>, <<"2", "7", "0">>, <<"1">>>>,
      <<<<"2", ".", "0">>, <<".", "5">>, <<"3">>, <<"2", "7", "0">>, <<"2">>>>,
      <<<<"-", "2">>, <<"1">>, <<"-", "2">>, <<"-", "9", "0">>, <<"-", "1">>>> }

AcceptSet == \E texts \in SetTexts : AcceptAll(texts)

SetInputs == { <<(<<>>), SourceHome>>, <<(<<Quit>>), SourceHome>> }

PumpSet == \E in \in SetInputs : Pump(in[1], in[2])

NextSet ==
    \/ PumpSet \/ Dispatch \/ Render \/ Emit \/ EmitRaises \/ MovePhotons
    \/ EndFrame \/ AcceptSet

SpecSet == InitSet /\ [][NextSet]_vars

\* ------------------------------------------------------------ two sources
\* the collection self.photons names for source s: photons is an attribute of
\* the class, and += (line 161), remove and clear change that one list in place
PhotonsOf(s) == photons

SecondHome == <<8, 14>>

\* the state once line 300 has run when a second PhotonSource has been
\* constructed after the circles
StartTwo(sc) ==
    /\ axis_value = sc[1]
    /\ ate_probability = sc[2]
    /\ frequency = sc[3]
    /\ rays_step = sc[4]
    /\ p_size = 1
    /\ entries = Shown(<<sc[1], sc[2], sc[3], sc[4], 1>>)
    /\ accepts = 0
    /\ typed = <<>>
    /\ objs = [i \in 1..6 |->
                  IF i = 1 THEN Obj("source", SourceHome, SourceRadius)
                  ELSE IF i = 6 THEN Obj("source", SecondHome, SourceRadius)
                  ELSE sc[5][i - 1]]
    /\ figures = <<1, 2, 3, 4, 5, 6>>
    /\ circles = <<2, 3, 4, 5>>
    /\ sources = <<1, 6>>
    /\ photons = <<>>
    /\ ticks = [i \in {1, 6} |-> 0]
    /\ enabled = [i \in {1, 6} |-> TRUE]
    /\ madeBy = [i \in {} |-> 0]
    /\ nextPhoton = 1
    /\ running = TRUE
    /\ pc = "pump"
    /\ event_list = <<>>
    /\ mouse = SourceHome
    /\ it = 1
    /\ sit = 1
    /\ tick = 0
    /\ jitterLeft = MaxJitterDraws
    /\ spawned = <<>>
    /\ moveStart = <<>>
    /\ blits = <<>>
    /\ heard = <<>>
    /\ seen = NoReads

TwoScenarios == { <<0, 0, 1, 270, LayoutB>>, <<0, 0, 2, 270, LayoutA>> }

InitTwo == \E sc \in TwoScenarios : StartTwo(sc)

TwoInputs ==
    { <<(<<>>), SourceHome>>,
      <<(<<MouseDown(SourceHome, 3)>>), SourceHome>>,
      <<(<<MouseDown(SecondHome, 3)>>), SecondHome>>,
      <<(<<KeyDown("K_c")>>), SourceHome>> }

PumpTwo == \E in \in TwoInputs : Pump(in[1], in[2])

NextTwo ==
    \/ PumpTwo \/ Dispatch \/ Render \/ Emit \/ MovePhotons \/ NextSource
    \/ EndFrame

SpecTwo == InitTwo /\ [][NextTwo]_vars

\* ------------------------------------------------- pointer and wheel feeds
\* circles in three corners, two of them around the same point: the pointer
\* can be over the source only, over circles only and over nothing
LayoutU ==
    << Obj("circle", <<0, 0>>, 10), Obj("circle", <<16, 0>>, 10),
       Obj("circle", <<0, 16>>, 10), Obj("circle", <<0, 0>>, 12) >>

UIScenarios == { <<0, 100, 2, 270, LayoutU>> }

InitUI == \E sc \in UIScenarios : Start(sc)

Nowhere == <<16, 16>>

UIInputs ==
    { <<(<<>>), SourceHome>>,
      <<(<<MouseWheel(-2)>>), (<<0, 0>>)>>,
      <<(<<MouseWheel(1)>>), (<<0, 0>>)>>,
      <<(<<MouseWheel(-1), MouseWheel(1)>>), SourceHome>>,
      <<(<<MouseDown(SourceHome, 1)>>), SourceHome>>,
      <<(<<MouseDown(<<0, 0>>, 1)>>), (<<0, 0>>)>>,
      <<(<<MouseMotion(<<8, 9>>)>>), (<<8, 9>>)>>,
      <<(<<MouseUp(<<8, 9>>, 1)>>), (<<8, 9>>)>>,
      <<(<<MouseUp(Nowhere, 1), KeyDown("K_r")>>), Nowhere>> }

PumpUI == \E in \in UIInputs : Pump(in[1], in[2])

NextUI == PumpUI \/ Dispatch \/ Render \/ Emit \/ MovePhotons \/ EndFrame

SpecUI == InitUI /\ [][NextUI]_vars

\* ------------------------------------------------------------ properties
\* the frame's emit() has returned
EmitReturned == tick > 0 /\ pc \in {"pump", "exit"}

\* emit() has run generate_photons (or not) and not yet returned
InEmit == tick > 0 /\ pc \in {"move", "pump", "exit"}

BlitIdx == 1..Len(blits)

\* the least k with k * d >= n
CeilDiv(n, d) == CHOOSE k \in 0..n : k * d >= n /\ (k = 0 \/ (k - 1) * d < n)

\* C1: with the spawn period N and the angular step s fixed, emit() of an
\* enabled source appends exactly ceil(360/s) new photons on the ticks that
\* are multiples of N, counted from startup, and none on the other ticks
C1_SpawnCadence ==
    (InEmit /\ enabled[1] /\ frequency > 0 /\ rays_step \in 1..359) =>
        /\ Len(spawned) = IF tick % frequency = 0
                          THEN CeilDiv(FullCircle, rays_step) ELSE 0
        /\ Len(moveStart) >= Len(spawned)
        /\ \A k \in 1..Len(spawned) :
              /\ moveStart[Len(moveStart) - Len(spawned) + k] = spawned[k].id
              /\ spawned[k].id = nextPhoton - Len(spawned) + k - 1

C1_Witness ==
    /\ InEmit /\ enabled[1]
    /\ tick = 2 * frequency
    /\ rays_step = 270
    /\ Len(spawned) = 2

\* C2: with jitter 0 the photon made for range angle a is headed a and sits
\* at center + (radius + 1) * (cos a, sin a)
C2_SpawnOnCircle ==
    (pc = "move" /\ it = 1 /\ axis_value = 0) =>
        LET o == objs[sources[1]]
        IN \A k \in 1..Len(spawned) :
              LET a == (k - 1) * rays_step
              IN /\ spawned[k].angle = a
                 /\ spawned[k].coord = <<o.mid[1] + (o.radius + 1) * Cos(a),
                                         o.mid[2] + (o.radius + 1) * Sin(a)>>

\* number of blit calls on photon id in the last move_photons
TimesAdvanced(id) == Cardinality({k \in BlitIdx : blits[k].id = id})

DestroyedIds == {blits[k].id : k \in {j \in BlitIdx : blits[j].res = "destroyed"}}

StartIds == {moveStart[k] : k \in 1..Len(moveStart)}

\* C3: every photon owned when move_photons starts is advanced exactly once
\* in that tick, and exactly the photons whose advance returned Destroyed
\* are removed
C3_EveryPhotonAdvancedOnce ==
    EmitReturned =>
        /\ \A id \in StartIds : TimesAdvanced(id) = 1
        /\ Ids(photons) = StartIds \ DestroyedIds

\* C4: a photon whose advance ends outside the canvas is destroyed without a
\* collision test and is not owned any more
C4_OutOfBoundsRemoved ==
    \A k \in BlitIdx :
        ~InBounds(blits[k].coord) =>
            /\ blits[k].res = "destroyed"
            /\ blits[k].tests = 0
            /\ blits[k].calls = <<>>
            /\ blits[k].id \notin Ids(photons)

C4_Witness ==
    /\ EmitReturned
    /\ \E k \in BlitIdx : ~InBounds(blits[k].coord) /\ blits[k].coord[2] > d_h

\* number of compute_photon calls of blit record b that reflected the photon
Reflections(b) == Cardinality({j \in 1..Len(b.calls) : ~b.calls[j].absorbed})

C5_Range ==
    /\ \A k \in 1..Len(photons) : photons[k].n_reflections \in 0..(NColors - 1)
    /\ \A k \in BlitIdx :
          /\ blits[k].after = blits[k].before + Reflections(blits[k])
          /\ blits[k].after >= NColors =>
                blits[k].res = "destroyed" /\ blits[k].id \notin Ids(photons)

C5_Step ==
    \A i \in 1..Len(photons), j \in 1..Len(photons') :
        photons[i].id = photons'[j].id =>
            /\ photons'[j].n_reflections >= photons[i].n_reflections
            /\ photons'[j].n_reflections > photons[i].n_reflections =>
                  /\ pc = "move"
                  /\ i = it
                  /\ blits' = Append(blits, blits'[Len(blits')])
                  /\ blits'[Len(blits')].id = photons[i].id
                  /\ blits'[Len(blits')].res = "alive"
                  /\ photons'[j].n_reflections =
                        photons[i].n_reflections + Reflections(blits'[Len(blits')])

\* C5: an owned photon's n_reflections stays in 0..7 and never decreases; it
\* grows only by the reflections of one of its own advances, and the advance
\* that takes it to 8 destroys the photon and removes it
C5_ReflectionCount == []C5_Range /\ [][C5_Step]_vars

C5_Witness ==
    \E k \in BlitIdx :
        /\ blits[k].after = NColors
        /\ blits[k].before < NColors
        /\ blits[k].res = "destroyed"
        /\ blits[k].id \notin Ids(photons)

\* the registry is the one the last move_photons ran against
RegistryOfMove == pc \in {"move", "pump", "exit"}

C7_ZeroProbabilityReflects ==
    ate_probability = 0 =>
        \A k \in BlitIdx :
            \A j \in 1..Len(blits[k].calls) :
                ~blits[k].calls[j].inner => ~blits[k].calls[j].absorbed

C7_Witness ==
    /\ ate_probability = 0
    /\ \E k \in BlitIdx :
          \E j \in 1..Len(blits[k].calls) :
              ~blits[k].calls[j].inner /\ ~blits[k].calls[j].absorbed

\* C8: while the source is disabled no photon is added, the tick counter
\* keeps cycling and every owned photon is still advanced on every tick
C8_DisabledKeepsAdvancing ==
    (EmitReturned /\ ~enabled[1]) =>
        /\ spawned = <<>>
        /\ ticks[1] = tick % frequency
        /\ \A id \in StartIds : TimesAdvanced(id) = 1

HasKey(evs, key) == \E k \in 1..Len(evs) : evs[k].type = "KEYDOWN" /\ evs[k].key = key

\* C9: once the source has handled a frame's events, a clear request among
\* them has left its photons empty, whatever else the event list holds
C9_ClearEmpties ==
    (pc = "emit" /\ HasKey(event_list, "K_c")) => photons = <<>>

Members(reg) == {reg[k] : k \in 1..Len(reg)}

Without(reg, gone) == SelectSeq(reg, LAMBDA x : x \notin gone)

\* a delete request reaches object id: R is pressed with the pointer over it
DeleteRequested(id) == HasKey(event_list, "K_r") /\ Collide(objs[id], mouse)

C10_SourceStays ==
    /\ sources = <<1>>
    /\ 1 \in Members(figures)
    /\ 1 \in DOMAIN objs /\ objs[1].kind = "source"

C10_Step ==
    LET gone == Members(figures) \ Members(figures')
        hearing == pc = "dispatch" /\ it <= Len(figures)
    IN /\ figures' = Without(figures, gone)
       /\ circles' = Without(circles, gone)
       /\ \A g \in gone :
             /\ hearing /\ g = figures[it]
             /\ objs[g].kind = "circle"
             /\ DeleteRequested(g)
       /\ (hearing /\ DeleteRequested(figures[it])) =>
             gone = IF objs[figures[it]].kind = "circle" THEN {figures[it]} ELSE {}

\* C10: a delete request on the source changes no registry and the source
\* stays a member; a delete request handled by a circle removes that circle,
\* and nothing else, from Figure.__objects__ and Circle.__objects__
C10_DeleteOnlyCircles == []C10_SourceStays /\ [][C10_Step]_vars

C10_Witness ==
    /\ pc = "emit"
    /\ DeleteRequested(1)
    /\ figures[1] = 1
    /\ Len(figures) < 5
    /\ Len(circles) = Len(figures) - 1

\* C14: one advance of a photon applies the interaction of at most one
\* registry member, the first one that collides with the new position, and
\* raises n_reflections by at most 1
C14_FirstObstacleOnly ==
    RegistryOfMove =>
        \A k \in BlitIdx :
            /\ Len(blits[k].calls) <= 1
            /\ blits[k].after <= blits[k].before + 1

\* number of times the listen of object id ran in the last dispatch phase
TimesHeard(id) == Cardinality({k \in 1..Len(heard) : heard[k] = id})

\* C15: when a frame's dispatch phase is over, every object still in the
\* registry has received the frame's event list exactly once, also when
\* another object deleted itself during the phase
C15_EveryObjectHears ==
    pc = "emit" => \A id \in Members(figures) : TimesHeard(id) = 1

\* every event of the frame is a wheel event
OnlyWheel(evs) == \A k \in 1..Len(evs) : evs[k].type = "MOUSEWHEEL"

\* radius r after the wheel events evs from k on, for an obstacle centered at
\* mid and the pointer at m: a tick over the obstacle adds 5 * delta and the
\* result is raised to 5, a tick elsewhere changes nothing
RECURSIVE Scrolled(_, _, _, _, _)
Scrolled(r, mid, m, evs, k) ==
    IF k > Len(evs) THEN r
    ELSE Scrolled(IF Dist2(mid, m) <= Sq(r)
                  THEN (IF r + 5 * evs[k].y < 5 THEN 5 ELSE r + 5 * evs[k].y)
                  ELSE r,
                  mid, m, evs, k + 1)

C11_Floor == \A id \in DOMAIN objs : objs[id].radius >= 5

C11_Step ==
    /\ \A id \in DOMAIN objs \cap DOMAIN objs' :
          objs'[id].radius # objs[id].radius =>
              /\ pc = "dispatch" /\ it <= Len(figures) /\ id = figures[it]
              /\ \E k \in 1..Len(event_list) : event_list[k].type = "MOUSEWHEEL"
    /\ (pc = "dispatch" /\ it <= Len(figures) /\ OnlyWheel(event_list)) =>
          LET id == figures[it]
          IN /\ id \in DOMAIN objs'
             /\ objs'[id].radius =
                   Scrolled(objs[id].radius, objs[id].mid, mouse, event_list, 1)

\* C11: the radius of every obstacle, circle or source, is at least 5 in
\* every state; a radius changes only when its obstacle handles a frame with
\* wheel events, and an obstacle that handles a frame of wheel events ends
\* with the radius that results from adding 5 * delta, raised to 5, for each
\* tick with the pointer over it and nothing for each other tick
C11_RadiusFloor == []C11_Floor /\ [][C11_Step]_vars

C11_Witness ==
    /\ pc = "emit"
    /\ event_list = <<MouseWheel(-2)>>
    /\ \E id \in DOMAIN objs :
          /\ objs[id].kind = "circle"
          /\ Collide(objs[id], mouse)
          /\ objs[id].radius = 5
    /\ \E id \in DOMAIN objs : ~Collide(objs[id], mouse) /\ objs[id].radius > 5

LeftDown(e) == e.type = "MOUSEBUTTONDOWN" /\ e.button = 1

LeftUp(e) == e.type = "MOUSEBUTTONUP" /\ e.button = 1

\* the event list holds a left-button release and no left-button press after it
ReleasedLast(evs) ==
    \E k \in 1..Len(evs) :
        LeftUp(evs[k]) /\ \A j \in (k + 1)..Len(evs) : ~LeftDown(evs[j])

\* object o as it is when event k of the frame reaches its Circle.listen
Before(o, k) == CircleListen(o, SubSeq(event_list, 1, k - 1), 1, mouse).o

C16_Released ==
    (pc = "emit" /\ ReleasedLast(event_list)) =>
        \A id \in Members(figures) : ~objs[id].activated_movement

C16_Step ==
    \A id \in DOMAIN objs \cap DOMAIN objs' :
        LET hearing == pc = "dispatch" /\ it <= Len(figures) /\ id = figures[it]
        IN /\ (~objs[id].activated_movement /\ objs'[id].activated_movement) =>
                 /\ hearing
                 /\ \E k \in 1..Len(event_list) :
                       /\ LeftDown(event_list[k])
                       /\ Collide(Before(objs[id], k), event_list[k].pos)
           /\ objs'[id].mid # objs[id].mid =>
                 /\ hearing
                 /\ \E k \in 1..Len(event_list) :
                       /\ event_list[k].type = "MOUSEMOTION"
                       /\ Before(objs[id], k).activated_movement
                       /\ objs'[id].mid = event_list[k].pos

\* C16: activated_movement of an obstacle becomes true only by a left-button
\* press inside it, its center moves only to the position of a pointer move
\* that reaches it while activated_movement is true, and when the dispatch of
\* a frame that holds a left-button release with no later left-button press
\* is over, no registry member has activated_movement true
C16_DragStateMachine == []C16_Released /\ [][C16_Step]_vars

\* entry k holds a text that float (entries 1, 2) or int (entries 3 to 5)
\* accepts, and the value it stands for
Parsed(k, text) ==
    IF k <= 2 THEN ParseFloat(ReplaceComma(Strip(text))) ELSE ParseInt(Strip(text))

C12_Step ==
    accepts' # accepts =>
        \A k \in 1..5 :
            IF Parsed(k, typed'[k]).ok
            THEN Stored'[k] = Parsed(k, typed'[k]).val
            ELSE Stored'[k] = Stored[k]

\* C12: an accept_all call leaves the stored value of every tunable whose
\* entry text does not parse as it was, and sets every tunable whose text
\* parses to the value parsed, whatever the other four texts are
C12_FailedParseKeepsValue == [][C12_Step]_vars

C12_Witness ==
    /\ accepts = 1
    /\ ~Parsed(1, typed[1]).ok /\ axis_value = 0
    /\ Parsed(2, typed[2]).ok /\ ate_probability = 50
    /\ Parsed(3, typed[3]).ok /\ frequency = 2
    /\ Parsed(4, typed[4]).ok /\ rays_step = 90
    /\ Parsed(5, typed[5]).ok /\ p_size = 3

\* C13: the frame loop never ends in an exception
C13_NoFatalError == pc # "error"

\* C17: during one frame all reads of a tunable give the same value
C17_ConsistentReads == \A n \in Tunables : Cardinality(seen[n]) <= 1

\* C18: the spawn period being positive from startup on, the tick counter of
\* the source is at least 0 and below the period when emit() returns
C18_CounterBelowPeriod ==
    (EmitReturned /\ accepts <= 1 /\ seen["frequency"] = {frequency}
                  /\ frequency > 0) =>
        (0 <= ticks[1] /\ ticks[1] < frequency)

====
